---------------------------- MODULE Spec2Model ----------------------------
(***************************************************************************)
(* The three verification scripts of the webview (verify_webview.py,       *)
(* verify_commands.py, verify_render.py) as one state machine: a run of    *)
(* one script, from its first statement to process exit.                   *)
(*                                                                         *)
(* Text is a sequence of units.  A unit is a character ("tick" the         *)
(* backtick, "semi" the semicolon, "bs" the backslash) or one of the fixed *)
(* literals the scripts search for, taken as a whole:                      *)
(*   "ret"   return<space>            "doc"   <!DOCTYPE html>              *)
(*   "ehtml" </html>                  "io"    ${                           *)
(*   "cl"    cmdList}                 "head"  <head>                       *)
(*   "acq"   const vscode = acquireVsCodeApi();                            *)
(*   "x"     any other text           "json"  the cmd_list literal         *)
(* Offsets are Python's: 0-based, -1 for "not found".                      *)
(***************************************************************************)
EXTENDS Integers, Sequences, FiniteSets, TLC

VARIABLES
    script,         \* which script this run executes
    pc,             \* the statement the run is at
    phase,          \* "ready", or "waiting" inside a synchronous page call
    source,         \* src/extension.ts on disk: NoFile or its text
    content,        \* content = f.read()
    start_idx,      \* start of the located region (Unset before)
    end_idx,        \* end of the located region (Unset before)
    html_template,  \* the extracted template (NoText before)
    commands_json,  \* the text bound to ${cmdList}
    html,           \* the hydrated document being built (NoText before)
    document,       \* verification/index.html (test.html) on disk: NoFile or text
    commands,       \* verify_render's fixture records
    dom,            \* the .cmd-card elements of the loaded page
    playwright,     \* "none", "running", "stopped"
    browser,        \* "none", "open", "closed"
    navigated,      \* page.goto has returned
    inflight,       \* page calls sent and not yet answered
    ops,            \* external operations performed, in order
    count,          \* count = page.locator(".cmd-card").count()  (Unset before)
    console,        \* the diagnostic lines printed so far
    screenshots,    \* screenshot files written
    exc,            \* the exception that is propagating or ended the run
    exitCode        \* process exit status (Unset while running)

vars == <<script, pc, phase, source, content, start_idx, end_idx, html_template,
          commands_json, html, document, commands, dom, playwright, browser,
          navigated, inflight, ops, count, console, screenshots, exc, exitCode>>

\* Values of the same shape as the ones they stand in for.
NoFile == <<"NoFile">>
NoText == <<"NoText">>
Unset == 0 - 2

\* Bounds of the model.
MaxBody == 3
MaxRepl == 1
MaxCards == 3

---------------------------------------------------------------------------
\* Python's str operations, on sequences of units.

Min(S) == CHOOSE m \in S : \A n \in S : m <= n

\* s[i : i + len(sub)] == sub, for a 0-based offset i
StartsAt(s, sub, i) ==
    /\ i + Len(sub) <= Len(s)
    /\ \A k \in 1..Len(sub) : s[i + k] = sub[k]

\* str.find(sub, start): the lowest offset >= start where sub occurs, or -1
find(s, sub, start) ==
    LET hits == {i \in start..Len(s) : StartsAt(s, sub, i)}
    IN  IF hits = {} THEN -1 ELSE Min(hits)

\* how Python clamps one bound of a slice
SliceBound(s, i) ==
    IF i < 0 THEN (IF i + Len(s) < 0 THEN 0 ELSE i + Len(s))
    ELSE (IF i > Len(s) THEN Len(s) ELSE i)

\* s[a:b]
slice(s, a, b) ==
    LET lo == SliceBound(s, a)
        hi == SliceBound(s, b)
    IN  IF lo >= hi THEN <<>> ELSE SubSeq(s, lo + 1, hi)

\* str.replace(old, new, 1): the first occurrence only
RECURSIVE replaceFirst(_, _, _)
replaceFirst(s, old, new) ==
    IF Len(s) < Len(old) THEN s
    ELSE IF StartsAt(s, old, 0)
         THEN new \o SubSeq(s, Len(old) + 1, Len(s))
         ELSE <<Head(s)>> \o replaceFirst(Tail(s), old, new)

\* str.replace(old, new) for a non-empty old: every non-overlapping occurrence,
\* scanning left to right
RECURSIVE replace(_, _, _)
replace(s, old, new) ==
    IF Len(s) < Len(old) THEN s
    ELSE IF StartsAt(s, old, 0)
         THEN new \o replace(SubSeq(s, Len(old) + 1, Len(s)), old, new)
         ELSE <<Head(s)>> \o replace(Tail(s), old, new)

\* str.count(sub): non-overlapping occurrences; len(s) + 1 for the empty sub
RECURSIVE str_count(_, _)
str_count(s, sub) ==
    IF sub = <<>> THEN Len(s) + 1
    ELSE IF Len(s) < Len(sub) THEN 0
    ELSE IF StartsAt(s, sub, 0)
         THEN 1 + str_count(SubSeq(s, Len(sub) + 1, Len(s)), sub)
         ELSE str_count(Tail(s), sub)

Units(s) == {s[i] : i \in 1..Len(s)}

SeqsUpTo(A, n) == UNION {[1..k -> A] : k \in 0..n}

---------------------------------------------------------------------------
\* The literals of the scripts.

start_marker == <<"ret", "tick", "doc">>
return_tick == <<"ret", "tick">>
html_end_marker == <<"ehtml">>
tick_semicolon == <<"tick", "semi">>
escaped_tick == <<"bs", "tick">>
escaped_interp == <<"bs", "io">>
cmdList_token == <<"io", "cl">>
acquire_stmt == <<"acq">>
mock_vscode == <<"mockvs">>
head_tag == <<"head">>
mock_api == <<"mockapi">>
cmd_list == <<"json">>

VerifyWebview == "verify_webview"
VerifyCommands == "verify_commands"
VerifyRender == "verify_render"
Scripts == {VerifyWebview, VerifyCommands, VerifyRender}

\* The source files a run may meet: a template head (absent or present), a
\* template body, and what follows the body.  A body is a run of the items a
\* template literal is written with: a backslash, an escaped backtick, an
\* escaped interpolation opener, the ${cmdList} token, a semicolon.
RECURSIVE Flatten(_)
Flatten(ps) == IF ps = <<>> THEN <<>> ELSE Head(ps) \o Flatten(Tail(ps))

BodyItems == {<<"bs">>, <<"bs", "tick">>, <<"bs", "io">>, <<"io", "cl">>, <<"semi">>}
Bodies == {Flatten(ps) : ps \in SeqsUpTo(BodyItems, MaxBody)}
Heads == {<<>>, <<"ret", "tick", "doc", "head", "acq">>}
Tails == {<<"ehtml">>, <<"tick", "semi">>, <<"ehtml", "tick", "semi">>,
          <<"ehtml", "tick", "semi", "x">>}
Sources == {NoFile} \cup {h \o b \o t : h \in Heads, b \in Bodies, t \in Tails}

\* What the external helper may print (trimmed): nothing, ordinary text, or
\* text that holds the token or a part of it.
OutputItems == {<<"x">>, <<"io", "cl">>, <<"cl">>}
Outputs == {Flatten(ps) : ps \in SeqsUpTo(OutputItems, MaxRepl)}

\* verify_render's fixture records.
Login == [command |-> "jules login", description |-> "Auth login",
          usage |-> "", actionId |-> "login"]
Stash == [command |-> "git stash", description |-> "Stash changes",
          usage |-> "git stash", actionId |-> ""]
Status == [command |-> "jules git status", description |-> "Show status",
           usage |-> "git status", actionId |-> ""]
Fixtures == SeqsUpTo({Login, Stash, Status}, MaxCards)

---------------------------------------------------------------------------
\* The two template locators and the unescaper, as the code computes them.

\* verify_webview.py: content.find(start_marker), then start_idx += len("return `")
FindStart(text) ==
    LET i == find(text, start_marker, 0)
    IN  IF i = -1 THEN -1 ELSE i + Len(return_tick)

\* verify_webview.py: content.find("</html>", start_idx)
FindHtmlEnd(text, from) == find(text, html_end_marker, from)

\* verify_webview.py: content.find("`;", html_end_idx); no test of the result
FindEnd(text, from) == find(text, tick_semicolon, from)

\* verify_commands.py: re.search(r'return `(<!DOCTYPE html>[\s\S]*?)`;', content).
\* The leftmost start marker, then the lazy group up to the first "`;" after it.
\* The result is [ok, start, end]: the span of group 1.
RegexSearch(text) ==
    LET i == find(text, start_marker, 0)
        s == i + Len(return_tick)
        e == IF i = -1 THEN -1 ELSE find(text, tick_semicolon, i + Len(start_marker))
    IN  IF i = -1 \/ e = -1
        THEN [ok |-> FALSE, start |-> -1, end |-> -1]
        ELSE [ok |-> TRUE, start |-> s, end |-> e]

\* the backtick pass alone
unescapeTickOnly(text) == replace(text, escaped_tick, <<"tick">>)

\* verify_webview.py: the two replace passes, backtick first
unescape(text) ==
    replace(replace(text, escaped_tick, <<"tick">>), escaped_interp, <<"io">>)

\* verify_render.py: renderCommands(), one .cmd-card per record, in order
Card(c) ==
    [name |-> c.command, desc |-> c.description, usage |-> c.usage,
     run |-> (c.actionId # "")]
renderCommandsRunnable(cmds) ==
    LET runnable == SelectSeq(cmds, LAMBDA c : c.actionId # "")
    IN  [i \in 1..Len(runnable) |-> Card(runnable[i])]
renderCommands(cmds) == [i \in 1..Len(cmds) |-> Card(cmds[i])]

\* page.is_visible("text=..."): some card shows the text
is_visible(cards, text) ==
    \E i \in 1..Len(cards) :
        text \in {cards[i].name, cards[i].desc, cards[i].usage}

\* verify_render.py: the document built around json.dumps(commands)
html_content(cmds) ==
    <<"doc", "head">> \o [i \in 1..Len(cmds) |-> cmds[i].command] \o <<"ehtml">>

---------------------------------------------------------------------------
\* The run.

Init ==
    /\ script \in Scripts
    /\ pc = CASE script = VerifyWebview -> "w_read"
              [] script = VerifyCommands -> "c_get_commands"
              [] OTHER -> "r_build"
    /\ phase = "ready"
    /\ source \in (IF script = VerifyRender THEN {NoFile} ELSE Sources)
    /\ commands \in (IF script = VerifyRender THEN Fixtures ELSE {<<>>})
    /\ content = NoText
    /\ start_idx = Unset
    /\ end_idx = Unset
    /\ html_template = NoText
    /\ commands_json = NoText
    /\ html = NoText
    /\ document = NoFile
    /\ dom = <<>>
    /\ playwright = "none"
    /\ browser = "none"
    /\ navigated = FALSE
    /\ inflight = <<>>
    /\ ops = <<>>
    /\ count = Unset
    /\ console = {}
    /\ screenshots = {}
    /\ exc = "none"
    /\ exitCode = Unset

textVars == <<source, content, start_idx, end_idx, html_template, commands_json,
              html, document, commands>>
pageVars == <<dom, playwright, browser, navigated, inflight, count, screenshots>>

\* An exception leaves the with-block through its exit, when inside one.
Raise(e) ==
    /\ exc' = e
    /\ pc' = IF playwright = "running" THEN "with_exit" ELSE "terminate"

\* ---- verify_webview.py, steps 1-5

W_Read ==
    /\ script = VerifyWebview /\ pc = "w_read"
    /\ IF source = NoFile
       THEN /\ console' = console \cup {"Error: src/extension.ts not found"}
            /\ pc' = "terminate"
            /\ UNCHANGED <<content, ops>>
       ELSE /\ content' = source
            /\ ops' = Append(ops, "read_source")
            /\ pc' = "w_find_start"
            /\ UNCHANGED console
    /\ UNCHANGED <<script, phase, source, start_idx, end_idx, html_template,
                   commands_json, html, document, commands, exc, exitCode>>
    /\ UNCHANGED pageVars

W_FindStart ==
    /\ script = VerifyWebview /\ pc = "w_find_start"
    /\ IF FindStart(content) = -1
       THEN /\ console' = console \cup {"Error: Could not find start of HTML template"}
            /\ pc' = "terminate"
            /\ UNCHANGED start_idx
       ELSE /\ start_idx' = FindStart(content)
            /\ pc' = "w_find_html_end"
            /\ UNCHANGED console
    /\ UNCHANGED <<script, phase, source, content, end_idx, html_template,
                   commands_json, html, document, commands, ops, exc, exitCode>>
    /\ UNCHANGED pageVars

W_FindHtmlEnd ==
    /\ script = VerifyWebview /\ pc = "w_find_html_end"
    /\ IF FindHtmlEnd(content, start_idx) = -1
       THEN /\ console' = console \cup {"Error: Could not find </html>"}
            /\ pc' = "terminate"
       ELSE /\ pc' = "w_slice"
            /\ UNCHANGED console
    /\ UNCHANGED <<script, phase, ops, exc, exitCode>>
    /\ UNCHANGED textVars
    /\ UNCHANGED pageVars

W_Slice ==
    /\ script = VerifyWebview /\ pc = "w_slice"
    /\ end_idx' = FindEnd(content, FindHtmlEnd(content, start_idx))
    /\ html_template' = slice(content, start_idx, end_idx')
    /\ pc' = "w_unescape"
    /\ UNCHANGED <<script, phase, source, content, start_idx, commands_json, html,
                   document, commands, ops, console, exc, exitCode>>
    /\ UNCHANGED pageVars

W_Unescape ==
    /\ script = VerifyWebview /\ pc = "w_unescape"
    /\ html_template' = unescape(html_template)
    /\ pc' = "w_inject_data"
    /\ UNCHANGED <<script, phase, source, content, start_idx, end_idx, commands_json,
                   html, document, commands, ops, console, exc, exitCode>>
    /\ UNCHANGED pageVars

W_InjectData ==
    /\ script = VerifyWebview /\ pc = "w_inject_data"
    /\ commands_json' = cmd_list
    /\ html' = replace(html_template, cmdList_token, cmd_list)
    /\ pc' = "w_inject_mock"
    /\ UNCHANGED <<script, phase, source, content, start_idx, end_idx, html_template,
                   document, commands, ops, console, exc, exitCode>>
    /\ UNCHANGED pageVars

W_InjectMock ==
    /\ script = VerifyWebview /\ pc = "w_inject_mock"
    /\ html' = replace(html, acquire_stmt, mock_vscode)
    /\ pc' = "w_write"
    /\ UNCHANGED <<script, phase, source, content, start_idx, end_idx, html_template,
                   commands_json, document, commands, ops, console, exc, exitCode>>
    /\ UNCHANGED pageVars

W_Write ==
    /\ script = VerifyWebview /\ pc = "w_write"
    /\ document' = html
    /\ ops' = Append(ops, "write_document")
    /\ console' = console \cup {"Generated test HTML"}
    /\ pc' = "with_enter"
    /\ UNCHANGED <<script, phase, source, content, start_idx, end_idx, html_template,
                   commands_json, html, commands, exc, exitCode>>
    /\ UNCHANGED pageVars

\* ---- verify_commands.py, up to the written document

C_GetCommands ==
    /\ script = VerifyCommands /\ pc = "c_get_commands"
    /\ console' = console \cup {"Getting commands..."}
    /\ \E out \in Outputs : commands_json' = out
    /\ ops' = Append(ops, "get_commands")
    /\ pc' = "c_open"
    /\ UNCHANGED <<script, phase, source, content, start_idx, end_idx, html_template,
                   html, document, commands, exc, exitCode>>
    /\ UNCHANGED pageVars

C_Open ==
    /\ script = VerifyCommands /\ pc = "c_open"
    /\ IF source = NoFile
       THEN /\ Raise("FileNotFoundError")
            /\ UNCHANGED <<content, ops>>
       ELSE /\ content' = source
            /\ ops' = Append(ops, "read_source")
            /\ pc' = "c_search"
            /\ UNCHANGED exc
    /\ UNCHANGED <<script, phase, source, start_idx, end_idx, html_template,
                   commands_json, html, document, commands, console, exitCode>>
    /\ UNCHANGED pageVars

C_Search ==
    /\ script = VerifyCommands /\ pc = "c_search"
    /\ LET m == RegexSearch(content)
       IN  IF ~m.ok
           THEN /\ Raise("AttributeError")
                /\ UNCHANGED <<start_idx, end_idx, html_template>>
           ELSE /\ start_idx' = m.start
                /\ end_idx' = m.end
                /\ html_template' = slice(content, m.start, m.end)
                /\ pc' = "c_create_data"
                /\ UNCHANGED exc
    /\ UNCHANGED <<script, phase, source, content, commands_json, html, document,
                   commands, ops, console, exitCode>>
    /\ UNCHANGED pageVars

C_CreateData ==
    /\ script = VerifyCommands /\ pc = "c_create_data"
    /\ html' = replace(html_template, cmdList_token, commands_json)
    /\ pc' = "c_create_mock"
    /\ UNCHANGED <<script, phase, source, content, start_idx, end_idx, html_template,
                   commands_json, document, commands, ops, console, exc, exitCode>>
    /\ UNCHANGED pageVars

C_CreateMock ==
    /\ script = VerifyCommands /\ pc = "c_create_mock"
    /\ html' = replace(html, head_tag, head_tag \o mock_api)
    /\ pc' = "c_write"
    /\ UNCHANGED <<script, phase, source, content, start_idx, end_idx, html_template,
                   commands_json, document, commands, ops, console, exc, exitCode>>
    /\ UNCHANGED pageVars

C_Write ==
    /\ script = VerifyCommands /\ pc = "c_write"
    /\ document' = html
    /\ ops' = Append(ops, "write_document")
    /\ console' = console \cup {"Verifying with Playwright..."}
    /\ pc' = "with_enter"
    /\ UNCHANGED <<script, phase, source, content, start_idx, end_idx, html_template,
                   commands_json, html, commands, exc, exitCode>>
    /\ UNCHANGED pageVars

\* ---- verify_render.py, up to the written document

R_Build ==
    /\ script = VerifyRender /\ pc = "r_build"
    /\ html' = html_content(commands)
    /\ pc' = "r_write"
    /\ UNCHANGED <<script, phase, source, content, start_idx, end_idx, html_template,
                   commands_json, document, commands, ops, console, exc, exitCode>>
    /\ UNCHANGED pageVars

R_Write ==
    /\ script = VerifyRender /\ pc = "r_write"
    /\ document' = html
    /\ ops' = Append(ops, "write_document")
    /\ pc' = "with_enter"
    /\ UNCHANGED <<script, phase, source, content, start_idx, end_idx, html_template,
                   commands_json, html, commands, console, exc, exitCode>>
    /\ UNCHANGED pageVars

\* ---- the browser session, common to the three scripts

\* with sync_playwright() as p:
WithEnter ==
    /\ pc = "with_enter"
    /\ playwright' = "running"
    /\ pc' = "launch"
    /\ UNCHANGED <<script, phase, ops, console, exc, exitCode>>
    /\ UNCHANGED textVars
    /\ UNCHANGED <<dom, browser, navigated, inflight, count, screenshots>>

\* browser = p.chromium.launch()
Launch ==
    /\ pc = "launch"
    /\ browser' = "open"
    /\ ops' = Append(ops, "launch")
    /\ pc' = "new_page"
    /\ UNCHANGED <<script, phase, console, exc, exitCode>>
    /\ UNCHANGED textVars
    /\ UNCHANGED <<dom, playwright, navigated, inflight, count, screenshots>>

\* page = browser.new_page()
NewPage ==
    /\ pc = "new_page"
    /\ ops' = Append(ops, "new_page")
    /\ pc' = "goto"
    /\ UNCHANGED <<script, phase, console, exc, exitCode>>
    /\ UNCHANGED textVars
    /\ UNCHANGED pageVars

\* The page call each statement makes.
PageOpAt ==
    [goto |-> "goto",
     w_click |-> "click",
     w_count |-> "count",
     w_expect_status |-> "expect:jules git status",
     w_expect_desc |-> "expect:Show the working tree status.",
     c_is_visible |-> "is_visible:CLI COMMANDS",
     c_click |-> "click",
     c_wait |-> "wait_for_timeout",
     c_content |-> "content",
     r_assert_login |-> "is_visible:jules login",
     r_assert_stash |-> "is_visible:git stash",
     r_assert_count |-> "count",
     screenshot |-> "screenshot"]

\* A call of the synchronous API: the request goes to the browser and the script
\* is suspended until the answer.
RequestNoWait ==
    /\ pc \in DOMAIN PageOpAt /\ phase = "ready"
    /\ Len(inflight) < 2
    /\ inflight' = Append(inflight, PageOpAt[pc])
    /\ ops' = Append(ops, PageOpAt[pc])
    /\ UNCHANGED <<script, pc, phase, console, exc, exitCode>>
    /\ UNCHANGED textVars
    /\ UNCHANGED <<dom, playwright, browser, navigated, count, screenshots>>

Request ==
    /\ pc \in DOMAIN PageOpAt /\ phase = "ready"
    /\ inflight' = Append(inflight, PageOpAt[pc])
    /\ ops' = Append(ops, PageOpAt[pc])
    /\ phase' = "waiting"
    /\ UNCHANGED <<script, pc, console, exc, exitCode>>
    /\ UNCHANGED textVars
    /\ UNCHANGED <<dom, playwright, browser, navigated, count, screenshots>>

\* The browser's answer resumes the script.
Answered(at) ==
    /\ pc = at /\ phase = "waiting"
    /\ phase' = "ready"
    /\ inflight' = Tail(inflight)

AfterGoto ==
    CASE script = VerifyWebview -> "w_click"
      [] script = VerifyCommands -> "c_is_visible"
      [] OTHER -> "r_assert_login"

\* page.goto(file://...): the page loads (verify_render's own script then runs
\* renderCommands()), or the load times out
GotoRet ==
    /\ Answered("goto")
    /\ \/ /\ navigated' = TRUE
          /\ dom' = IF script = VerifyRender THEN renderCommands(commands) ELSE dom
          /\ console' = IF script = VerifyCommands
                        THEN console \cup {"Page loaded."}
                        ELSE IF script = VerifyWebview
                             THEN console \cup {"Verifying page content..."}
                             ELSE console
          /\ pc' = AfterGoto
          /\ UNCHANGED exc
       \/ /\ Raise("TimeoutError")
          /\ UNCHANGED <<navigated, dom, console>>
    /\ UNCHANGED <<script, ops, exitCode>>
    /\ UNCHANGED textVars
    /\ UNCHANGED <<playwright, browser, count, screenshots>>

\* ---- verify_webview.py, the checks

\* page.locator("#tab-commands").click()
W_ClickRet ==
    /\ script = VerifyWebview /\ Answered("w_click")
    /\ \/ /\ pc' = "w_count"
          /\ UNCHANGED exc
       \/ Raise("TimeoutError")
    /\ UNCHANGED <<script, ops, console, exitCode>>
    /\ UNCHANGED textVars
    /\ UNCHANGED <<dom, playwright, browser, navigated, count, screenshots>>

\* count = page.locator(".cmd-card").count()
W_CountRet ==
    /\ script = VerifyWebview /\ Answered("w_count")
    /\ \E n \in 0..MaxCards : count' = n
    /\ console' = console \cup {"Found count command cards."}
    /\ pc' = "w_check_count"
    /\ UNCHANGED <<script, ops, exc, exitCode>>
    /\ UNCHANGED textVars
    /\ UNCHANGED <<dom, playwright, browser, navigated, screenshots>>

\* if count != 3: print, browser.close(), exit(1)
W_CheckCount ==
    /\ script = VerifyWebview /\ pc = "w_check_count"
    /\ IF count # 3
       THEN /\ console' = console \cup {"FAILED: Expected 3 command cards."}
            /\ browser' = "closed"
            /\ ops' = Append(ops, "close")
            /\ Raise("SystemExit")
       ELSE /\ pc' = "w_expect_status"
            /\ UNCHANGED <<console, browser, ops, exc>>
    /\ UNCHANGED <<script, phase, exitCode>>
    /\ UNCHANGED textVars
    /\ UNCHANGED <<dom, playwright, navigated, inflight, count, screenshots>>

\* expect(page.get_by_text("jules git status")).to_be_visible()
W_ExpectStatusRet ==
    /\ script = VerifyWebview /\ Answered("w_expect_status")
    /\ \/ /\ pc' = "w_expect_desc"
          /\ UNCHANGED exc
       \/ Raise("AssertionError")
    /\ UNCHANGED <<script, ops, console, exitCode>>
    /\ UNCHANGED textVars
    /\ UNCHANGED <<dom, playwright, browser, navigated, count, screenshots>>

\* expect(page.get_by_text("Show the working tree status.")).to_be_visible()
W_ExpectDescRet ==
    /\ script = VerifyWebview /\ Answered("w_expect_desc")
    /\ \/ /\ pc' = "screenshot"
          /\ UNCHANGED exc
       \/ Raise("AssertionError")
    /\ UNCHANGED <<script, ops, console, exitCode>>
    /\ UNCHANGED textVars
    /\ UNCHANGED <<dom, playwright, browser, navigated, count, screenshots>>

\* ---- verify_commands.py, the checks

\* if page.is_visible("text=CLI COMMANDS"): ... else: print("Tab NOT found!")
C_IsVisibleRet ==
    /\ script = VerifyCommands /\ Answered("c_is_visible")
    /\ \/ /\ console' = console \cup {"Tab found, clicking..."}
          /\ pc' = "c_click"
       \/ /\ console' = console \cup {"Tab NOT found!"}
          /\ pc' = "c_content"
    /\ UNCHANGED <<script, ops, exc, exitCode>>
    /\ UNCHANGED textVars
    /\ UNCHANGED <<dom, playwright, browser, navigated, count, screenshots>>

\* page.click("text=CLI COMMANDS")
C_ClickRet ==
    /\ script = VerifyCommands /\ Answered("c_click")
    /\ \/ /\ pc' = "c_wait"
          /\ UNCHANGED exc
       \/ Raise("TimeoutError")
    /\ UNCHANGED <<script, ops, console, exitCode>>
    /\ UNCHANGED textVars
    /\ UNCHANGED <<dom, playwright, browser, navigated, count, screenshots>>

\* page.wait_for_timeout(1000)
C_WaitRet ==
    /\ script = VerifyCommands /\ Answered("c_wait")
    /\ pc' = "c_content"
    /\ UNCHANGED <<script, ops, console, exc, exitCode>>
    /\ UNCHANGED textVars
    /\ UNCHANGED <<dom, playwright, browser, navigated, count, screenshots>>

\* content = page.content(); if "jules git rebase" in content: ... else: print(Error)
C_ContentRet ==
    /\ script = VerifyCommands /\ Answered("c_content")
    /\ \/ console' = console \cup {"Verified: 'jules git rebase' is in DOM."}
       \/ console' = console \cup {"Error: 'jules git rebase' NOT in DOM."}
    /\ pc' = "screenshot"
    /\ UNCHANGED <<script, ops, exc, exitCode>>
    /\ UNCHANGED textVars
    /\ UNCHANGED <<dom, playwright, browser, navigated, count, screenshots>>

\* ---- verify_render.py, the checks

\* assert page.is_visible("text=jules login")
R_AssertLoginRet ==
    /\ script = VerifyRender /\ Answered("r_assert_login")
    /\ IF is_visible(dom, "jules login")
       THEN pc' = "r_assert_stash" /\ UNCHANGED exc
       ELSE Raise("AssertionError")
    /\ UNCHANGED <<script, ops, console, exitCode>>
    /\ UNCHANGED textVars
    /\ UNCHANGED <<dom, playwright, browser, navigated, count, screenshots>>

\* assert page.is_visible("text=git stash")
R_AssertStashRet ==
    /\ script = VerifyRender /\ Answered("r_assert_stash")
    /\ IF is_visible(dom, "git stash")
       THEN pc' = "r_assert_count" /\ UNCHANGED exc
       ELSE Raise("AssertionError")
    /\ UNCHANGED <<script, ops, console, exitCode>>
    /\ UNCHANGED textVars
    /\ UNCHANGED <<dom, playwright, browser, navigated, count, screenshots>>

\* assert page.locator(".cmd-card").count() == 2, then the success line
R_AssertCountRet ==
    /\ script = VerifyRender /\ Answered("r_assert_count")
    /\ count' = Len(dom)
    /\ IF count' = 2
       THEN /\ console' = console \cup {"Verification Successful"}
            /\ pc' = "screenshot"
            /\ UNCHANGED exc
       ELSE /\ Raise("AssertionError")
            /\ UNCHANGED console
    /\ UNCHANGED <<script, ops, exitCode>>
    /\ UNCHANGED textVars
    /\ UNCHANGED <<dom, playwright, browser, navigated, screenshots>>

\* ---- the end of the run, common to the three scripts

ScreenshotPath ==
    CASE script = VerifyWebview -> "verification/webview.png"
      [] script = VerifyCommands -> "verification/commands.png"
      [] OTHER -> "verification/webview_render.png"

\* page.screenshot(path=...)
ScreenshotRet ==
    /\ Answered("screenshot")
    /\ screenshots' = screenshots \cup {ScreenshotPath}
    /\ console' = IF script = VerifyRender THEN console
                  ELSE console \cup {"Screenshot saved"}
    /\ pc' = "close"
    /\ UNCHANGED <<script, ops, exc, exitCode>>
    /\ UNCHANGED textVars
    /\ UNCHANGED <<dom, playwright, browser, navigated, count>>

\* browser.close()
Close ==
    /\ pc = "close"
    /\ browser' = "closed"
    /\ ops' = Append(ops, "close")
    /\ pc' = "with_exit"
    /\ UNCHANGED <<script, phase, console, exc, exitCode>>
    /\ UNCHANGED textVars
    /\ UNCHANGED <<dom, playwright, navigated, inflight, count, screenshots>>

\* Leaving the with-block, normally or by an exception: the driver is stopped
\* and takes a browser that is still open down with it.
WithExitNoRelease ==
    /\ pc = "with_exit"
    /\ playwright' = "stopped"
    /\ pc' = "terminate"
    /\ UNCHANGED <<script, phase, ops, console, exc, exitCode>>
    /\ UNCHANGED textVars
    /\ UNCHANGED <<dom, browser, navigated, inflight, count, screenshots>>

WithExit ==
    /\ pc = "with_exit"
    /\ playwright' = "stopped"
    /\ browser' = IF browser = "open" THEN "closed" ELSE browser
    /\ pc' = "terminate"
    /\ UNCHANGED <<script, phase, ops, console, exc, exitCode>>
    /\ UNCHANGED textVars
    /\ UNCHANGED <<dom, navigated, inflight, count, screenshots>>

\* The process ends: status 0 after a return or the last statement, 1 after
\* exit(1) or an exception nobody caught (whose traceback is printed).
Terminate ==
    /\ pc = "terminate"
    /\ exitCode' = IF exc = "none" THEN 0 ELSE 1
    /\ console' = IF exc \in {"none", "SystemExit"} THEN console
                  ELSE console \cup {"Traceback"}
    /\ pc' = "done"
    /\ UNCHANGED <<script, phase, ops, exc>>
    /\ UNCHANGED textVars
    /\ UNCHANGED pageVars

Next ==
    \/ W_Read \/ W_FindStart \/ W_FindHtmlEnd \/ W_Slice \/ W_Unescape
    \/ W_InjectData \/ W_InjectMock \/ W_Write
    \/ C_GetCommands \/ C_Open \/ C_Search \/ C_CreateData \/ C_CreateMock \/ C_Write
    \/ R_Build \/ R_Write
    \/ WithEnter \/ Launch \/ NewPage \/ Request \/ GotoRet
    \/ W_ClickRet \/ W_CountRet \/ W_CheckCount \/ W_ExpectStatusRet \/ W_ExpectDescRet
    \/ C_IsVisibleRet \/ C_ClickRet \/ C_WaitRet \/ C_ContentRet
    \/ R_AssertLoginRet \/ R_AssertStashRet \/ R_AssertCountRet
    \/ ScreenshotRet \/ Close \/ WithExit \/ Terminate

Spec == Init /\ [][Next]_vars

---------------------------------------------------------------------------
\* What the claims speak of.

FailureLines ==
    {"Error: src/extension.ts not found",
     "Error: Could not find start of HTML template",
     "Error: Could not find </html>",
     "FAILED: Expected 3 command cards.",
     "Tab NOT found!",
     "Error: 'jules git rebase' NOT in DOM."}

\* a failure has been met: a diagnostic was printed or an exception raised
Failed == console \cap FailureLines # {} \/ exc # "none"

PageOpNames == {PageOpAt[k] : k \in DOMAIN PageOpAt}
PageOps(log) == SelectSeq(log, LAMBDA o : o \in PageOpNames)
Index(log, o) == IF \E i \in 1..Len(log) : log[i] = o
                 THEN Min({i \in 1..Len(log) : log[i] = o})
                 ELSE 0

ReadsSource == script \in {VerifyWebview, VerifyCommands}
Located == ReadsSource /\ html_template # NoText
LocateStepDone ==
    /\ ReadsSource
    /\ pc \notin {"w_read", "w_find_start", "w_find_html_end", "w_slice",
                  "c_get_commands", "c_open", "c_search"}

\* the start marker, then </html>, then the terminating `;
MarkersInOrder(text) ==
    LET s == find(text, start_marker, 0)
        h == IF s = -1 THEN -1 ELSE find(text, html_end_marker, s + Len(start_marker))
        e == IF h = -1 THEN -1 ELSE find(text, tick_semicolon, h + Len(html_end_marker))
    IN  e # -1

\* </html> followed, somewhere after it, by `;
EndMarkerPresent(text) ==
    \E h \in 0..Len(text) :
        /\ StartsAt(text, html_end_marker, h)
        /\ find(text, tick_semicolon, h + Len(html_end_marker)) # -1

\* C1: a run that met a failure ends with a non-zero exit status.
C1_FailureExitsNonZero == (pc = "done" /\ Failed) => exitCode # 0

\* the last call made was a click, and it raised
ClickFailed == exc = "TimeoutError" /\ ops # <<>> /\ ops[Len(ops)] = "click"

\* C2: when the run has ended the browser session is closed, whatever the exit
\* path; a click that finds no element ends the run with a non-zero status.
C2_SessionClosedAtExit ==
    pc = "done" =>
        /\ browser # "open"
        /\ playwright # "running"
        /\ (Index(ops, "launch") # 0 => browser = "closed")
        /\ (ClickFailed => exitCode # 0)
\* C2 witness: verify_webview's click found no element; the run ended with
\* status 1 and the session closed.
C2_ClickFailedSessionClosed ==
    /\ script = VerifyWebview /\ MarkersInOrder(source)
    /\ pc = "done" /\ ClickFailed /\ browser = "closed" /\ exitCode = 1

\* C3: with the markers present in order the locator returns a region with
\* 0 <= startOffset < endOffset <= len(source); with the start marker, </html>
\* or the terminating `; absent it returns no slice.
C3_LocatorTotalOrFail ==
    /\ (LocateStepDone /\ MarkersInOrder(source)) =>
           /\ Located
           /\ 0 <= start_idx /\ start_idx < end_idx /\ end_idx <= Len(content)
    /\ Located =>
           /\ find(source, start_marker, 0) # -1
           /\ find(source, html_end_marker, 0) # -1
           /\ find(source, tick_semicolon, 0) # -1

\* C4: a source without the template's end marker leaves no side effect: no
\* document written, no browser launched, no screenshot.
C4_NoSideEffectWithoutEndMarker ==
    (ReadsSource /\ ~EndMarkerPresent(source)) =>
        /\ document = NoFile
        /\ browser = "none"
        /\ screenshots = {}

\* C5: the loaded page holds one .cmd-card per fixture record, in fixture
\* order, each showing its command; a run whose card count is not the expected
\* one (2 in verify_render, 3 in verify_webview) ends as failed.
C5_OneCardPerRecord ==
    /\ (script = VerifyRender /\ navigated) =>
           /\ Len(dom) = Len(commands)
           /\ \A i \in 1..Len(commands) :
                  /\ dom[i].name = commands[i].command
                  /\ is_visible(dom, commands[i].command)
    /\ (script = VerifyRender /\ navigated /\ pc = "done" /\ Len(commands) # 2) =>
           exitCode # 0
    /\ (script = VerifyWebview /\ pc = "done" /\ count \notin {Unset, 3}) =>
           /\ exitCode # 0
           /\ "FAILED: Expected 3 command cards." \in console
\* C5 witness: verify_render's own two records, two cards counted, run passed.
C5_TwoRecordsTwoCards ==
    /\ script = VerifyRender /\ pc = "done" /\ exitCode = 0
    /\ commands = <<Login, Stash>>
    /\ count = 2 /\ Len(dom) = 2

\* the text bound to ${cmdList} is not empty and shares no unit with the token,
\* the template, or the tokens and mock texts of the later bindings
DisjointReplacement ==
    /\ commands_json # <<>>
    /\ Units(commands_json) \cap
           (Units(html_template) \cup Units(cmdList_token) \cup Units(acquire_stmt)
            \cup Units(mock_vscode) \cup Units(head_tag) \cup Units(mock_api)) = {}

SubstitutionDone == ReadsSource /\ html # NoText

\* the counts the claim speaks of, on the document as it stands (after the
\* ${cmdList} binding, and after the later binding once it is applied)
SubstitutionCounts ==
    /\ str_count(html, commands_json) = str_count(html_template, cmdList_token)
    /\ str_count(html, cmdList_token) = 0

Extracted == slice(content, start_idx, end_idx)
UnescapeDone ==
    /\ script = VerifyWebview /\ html_template # NoText
    /\ pc \notin {"w_read", "w_find_start", "w_find_html_end", "w_slice", "w_unescape"}

\* each escaped backtick and escaped interpolation opener read as its literal,
\* in one scan from the left; everything else as it stands
RECURSIVE Literal(_)
Literal(t) ==
    IF t = <<>> THEN <<>>
    ELSE IF StartsAt(t, escaped_tick, 0) \/ StartsAt(t, escaped_interp, 0)
         THEN <<t[2]>> \o Literal(SubSeq(t, 3, Len(t)))
         ELSE <<Head(t)>> \o Literal(Tail(t))

UnescapedClean ==
    /\ str_count(html_template, escaped_tick) = 0
    /\ str_count(html_template, escaped_interp) = 0
    /\ html_template = Literal(Extracted)

NoBackslashBeforeEscape(t) ==
    /\ str_count(t, <<"bs">> \o escaped_tick) = 0
    /\ str_count(t, <<"bs">> \o escaped_interp) = 0

\* C7 as stated: for any extracted template one application of the two passes
\* leaves no escaped backtick or escaped interpolation opener and restores
\* every literal.  Stated for the templates whose terminating `; was found.
C7_UnescapeSinglePass == (UnescapeDone /\ end_idx # -1) => UnescapedClean

\* C7 amended: the same, for an extracted template in which no escaped sequence
\* is itself preceded by a backslash.
C7_UnescapeSinglePassNoDoubleBackslash ==
    (UnescapeDone /\ NoBackslashBeforeEscape(Extracted)) => UnescapedClean
\* C7 witness: a template with an escaped backtick and an escaped opener.
C7_BothEscapesUnescaped ==
    /\ UnescapeDone /\ NoBackslashBeforeEscape(Extracted)
    /\ MarkersInOrder(source) /\ end_idx # -1
    /\ str_count(Extracted, escaped_tick) > 0
    /\ str_count(Extracted, escaped_interp) > 0

\* C8: once a check has failed no further page call is made and no screenshot
\* is written; a screenshot exists only if no check failed.
C8_FirstFailureEndsRun ==
    [][Failed => (PageOps(ops') = PageOps(ops) /\ screenshots' = screenshots)]_vars

\* the region verify_webview's locator cuts out of a text; it succeeds when
\* each of its three searches finds its marker
FindLocate(text) ==
    LET s == FindStart(text)
        h == IF s = -1 THEN -1 ELSE FindHtmlEnd(text, s)
        e == IF h = -1 THEN -1 ELSE FindEnd(text, h)
    IN  IF e = -1
        THEN [ok |-> FALSE, text |-> NoText]
        ELSE [ok |-> TRUE, text |-> slice(text, s, e)]
RegexLocate(text) ==
    LET m == RegexSearch(text)
    IN  IF m.ok THEN [ok |-> TRUE, text |-> slice(text, m.start, m.end)]
        ELSE [ok |-> FALSE, text |-> NoText]

\* C9: on a source where both locators succeed they return the same text, from
\* <!DOCTYPE html> up to the backtick that ends the template after </html>.
C9_LocatorsAgree ==
    (ReadsSource /\ pc \in {"w_unescape", "c_create_data"}
       /\ FindLocate(content).ok /\ RegexLocate(content).ok) =>
        /\ html_template = FindLocate(content).text
        /\ html_template = RegexLocate(content).text
        /\ Head(html_template) = "doc"
        /\ html_template[Len(html_template)] = "ehtml"

\* C10: one-way pipeline.  The source is read before the template is held; the
\* document is on disk, whole, before the browser is launched and navigates;
\* page calls are made inside the open session, all but goto after the page
\* has loaded; at most one call is in progress; no operation is made twice.
C10_OneWayPipeline ==
    LET read == Index(ops, "read_source")
        write == Index(ops, "write_document")
        launch == Index(ops, "launch")
        goto == Index(ops, "goto")
        close == Index(ops, "close")
    IN  /\ Located => read # 0
        /\ launch # 0 => (write # 0 /\ write < launch)
        /\ goto # 0 => (launch # 0 /\ launch < goto)
        /\ goto # 0 => (document # NoFile /\ document = html)
        /\ \A i \in 1..Len(ops) :
               ops[i] \in PageOpNames =>
                   /\ launch # 0 /\ launch < i
                   /\ close = 0 \/ i < close
                   /\ ops[i] # "goto" => (navigated /\ goto # 0 /\ goto < i)
        /\ inflight # <<>> => (browser = "open" /\ playwright = "running")
        /\ Len(inflight) <= 1
        /\ Cardinality({ops[i] : i \in 1..Len(ops)}) = Len(ops)
\* C10 witness: a full verify_commands run, tab clicked, screenshot taken.
C10_FullRunInOrder ==
    /\ script = VerifyCommands /\ MarkersInOrder(source)
    /\ pc = "done" /\ exitCode = 0
    /\ Index(ops, "click") # 0 /\ Index(ops, "screenshot") # 0

============================================================================
